---- MODULE Spec2Model ----
(***************************************************************************)
(* Model of the maximally-delayed Pauli flow search, pflow::find           *)
(* (src/src/pflow.rs).  One behaviour is one call of find: Init draws the  *)
(* arguments (g, iset, oset, pplane), the actions are the per-vertex body  *)
(* of the layer sweep, the end-of-layer bookkeeping and the code after the *)
(* loop.                                                                   *)
(***************************************************************************)
EXTENDS Integers, Sequences, FiniteSets, TLC

VARIABLES n, g, iset, oset, pplane,
          l, cset, ocset, rowset_upper, rowset_lower, colset, f, layer,
          todo, last, pc, result

vars == <<n, g, iset, oset, pplane, l, cset, ocset, rowset_upper,
          rowset_lower, colset, f, layer, todo, last, pc, result>>

\* Largest number of vertices of the graphs explored.
MaxN == 3

\* Number of vertices of the graphs of the wide matrices (SpecWide).
WideN == 4

\* enum PPlane, #[repr(u8)]
XY == 0
YZ == 1
ZX == 2
X == 3
Y == 4
Z == 5

PPlane == {XY, YZ, ZX, X, Y, Z}

BRANCH_XY == 0
BRANCH_YZ == 1
BRANCH_ZX == 2

----------------------------------------------------------------------------
\* Sets and ordered sets

Min(S) == CHOOSE m \in S : \A k \in S : m <= k

SymDiff(A, B) == (A \ B) \cup (B \ A)

\* Iteration order of an OrderedNodes (ascending vertex id), as a sequence.
RECURSIVE OrderedNodes(_)
OrderedNodes(S) ==
    IF S = {} THEN <<>>
    ELSE LET m == Min(S) IN <<m>> \o OrderedNodes(S \ {m})

\* The .iter().enumerate() inverse maps (colset2i, rowset2i): vertex -> index.
IndexOf(seq, v) == (CHOOSE i \in 1..Len(seq) : seq[i] = v) - 1

\* common::odd_neighbors: the vertices with an odd number of neighbours in S.
odd_neighbors(gr, S) ==
    {v \in DOMAIN gr : Cardinality(gr[v] \cap S) % 2 = 1}

\* matching_nodes!: the keys of the plane map whose plane is in P.
matching_nodes(src, P) == {k \in DOMAIN src : src[k] \in P}

----------------------------------------------------------------------------
\* Working matrix: a sequence of rows, each row the set of its set bits.
\* Column ncols is the right-hand side.

\* common::zerofill after work.resize_with: nrows cleared rows.
zerofill(nrows) == [r \in 1..nrows |-> {}]

init_work_upper_co(work, gr, rowset, cols) ==
    LET rs == OrderedNodes(rowset)
        cs == OrderedNodes(cols)
    IN  [r \in 1..Len(work) |->
            work[r] \cup {IndexOf(cs, w) : w \in gr[rs[r]] \cap cols}]

init_work_lower_co(work, gr, rowset, cols) ==
    LET rs == OrderedNodes(rowset)
        cs == OrderedNodes(cols)
    IN  [r \in 1..Len(work) |->
            work[r] \cup {r - 1}
                    \cup {IndexOf(cs, w) : w \in gr[rs[r]] \cap cols}]

init_work_upper_rhs(K, work, u, gr, rowset, cols) ==
    LET rs == OrderedNodes(rowset)
        c == Cardinality(cols)
        w1 == IF K # BRANCH_YZ
              THEN [work EXCEPT ![IndexOf(rs, u) + 1] = @ \cup {c}]
              ELSE work
    IN  IF K = BRANCH_XY THEN w1
        ELSE [r \in 1..Len(w1) |->
                IF rs[r] \in gr[u] THEN SymDiff(w1[r], {c}) ELSE w1[r]]

init_work_lower_rhs(K, work, u, gr, rowset, cols) ==
    LET rs == OrderedNodes(rowset)
        c == Cardinality(cols)
    IN  IF K = BRANCH_XY THEN work
        ELSE [r \in 1..Len(work) |->
                IF rs[r] \in gr[u] THEN SymDiff(work[r], {c}) ELSE work[r]]

init_work(K, work, u, gr, rs_upper, rs_lower, cols) ==
    LET nrows_upper == Cardinality(rs_upper)
        up0 == SubSeq(work, 1, nrows_upper)
        lo0 == SubSeq(work, nrows_upper + 1, Len(work))
        up1 == init_work_upper_co(up0, gr, rs_upper, cols)
        lo1 == init_work_lower_co(lo0, gr, rs_lower, cols)
        up2 == init_work_upper_rhs(K, up1, u, gr, rs_upper, cols)
        lo2 == init_work_lower_rhs(K, lo1, u, gr, rs_lower, cols)
    IN  up2 \o lo2

\* FixedBitSet::insert / toggle panic on a bit index >= the row's length.
OutOfBounds(work, width) ==
    \E r \in 1..Len(work) : \E b \in work[r] : b >= width

----------------------------------------------------------------------------
\* GF(2) solver (gf2_linalg::GF2Solver): in-place elimination, column by
\* column, of the left ncols columns; p is the number of pivot rows so far.

RECURSIVE Eliminate(_, _, _, _)
Eliminate(M, j, p, ncols) ==
    IF j = ncols THEN [M |-> M, rank |-> p]
    ELSE LET cand == {i \in (p + 1)..Len(M) : j \in M[i]} IN
         IF cand = {} THEN Eliminate(M, j + 1, p, ncols)
         ELSE LET i == Min(cand)
                  M1 == [M EXCEPT ![p + 1] = M[i], ![i] = M[p + 1]]
                  M2 == [k \in 1..Len(M1) |->
                            IF k # p + 1 /\ j \in M1[k]
                            THEN SymDiff(M1[k], M1[p + 1])
                            ELSE M1[k]]
              IN  Eliminate(M2, j + 1, p + 1, ncols)

\* solve_in_place(x, 0): solved iff no zero row has its right-hand side set;
\* the witness sets each pivot column to its row's right-hand side, free
\* columns to 0.
solve_in_place(work, ncols) ==
    LET e == Eliminate(work, 0, 0, ncols)
        solved == \A k \in (e.rank + 1)..Len(work) : ncols \notin e.M[k]
    IN  [solved |-> solved,
         x |-> IF solved
               THEN {Min(e.M[k] \ {ncols}) : k \in {q \in 1..e.rank : ncols \in e.M[q]}}
               ELSE {}]

decode_solution(K, u, x, tab) ==
    LET fu == {tab[c + 1] : c \in x}
    IN  IF K # BRANCH_XY THEN fu \cup {u} ELSE fu

----------------------------------------------------------------------------
\* Scope guards

ScopedInclude_new(target, u) ==
    [target |-> target \cup {u}, u |-> IF u \notin target THEN {u} ELSE {}]

\* Variant: the drop leaves the target as the body saw it.
ScopedInclude_drop_keep(guard) == guard.target

ScopedInclude_drop(guard) == guard.target \ guard.u

\* Variant: the guard remembers u whether or not it was removed.
ScopedExclude_new_always(target, u) ==
    [target |-> target \ {u}, u |-> {u}]

ScopedExclude_new(target, u) ==
    [target |-> target \ {u}, u |-> IF u \in target THEN {u} ELSE {}]

ScopedExclude_drop(guard) == guard.target \cup guard.u

----------------------------------------------------------------------------
\* Post-construction checks

\* common::check_domain: dom(f) = V \ O and every f(u) avoids the inputs.
check_domain(ff, vset, is, os) ==
    /\ DOMAIN ff = vset \ os
    /\ \A i \in DOMAIN ff : ff[i] \subseteq vset \ is

\* common::check_initial: every output has layer 0.
check_initial(lay, os) == \A v \in os : lay[v] = 0

\* pplane[&v] matches one of the planes P (an absent key panics: no match).
plane_in(pp, v, P) == v \in DOMAIN pp /\ pp[v] \in P

check_layer_f(ff, lay, pp, i) ==
    \A fij \in ff[i] :
        (i # fij /\ lay[i] <= lay[fij]) => plane_in(pp, fij, {X, Y})

check_layer_odd(ff, lay, gr, pp, i) ==
    \A j \in odd_neighbors(gr, ff[i]) :
        (i # j /\ lay[i] <= lay[j]) => plane_in(pp, j, {Y, Z})

check_y_correction(ff, lay, gr, pp, i) ==
    \A j \in SymDiff(ff[i], odd_neighbors(gr, ff[i])) :
        ~(plane_in(pp, j, {Y}) /\ i # j /\ lay[i] <= lay[j])

check_pplane(ff, gr, pp, i) ==
    LET in_f == i \in ff[i]
        in_odd == i \in odd_neighbors(gr, ff[i])
    IN  /\ i \in DOMAIN pp
        /\ pp[i] = XY => (~in_f /\ in_odd)
        /\ pp[i] = YZ => (in_f /\ ~in_odd)
        /\ pp[i] = ZX => (in_f /\ in_odd)
        /\ pp[i] = X => in_odd
        /\ pp[i] = Y => (in_f # in_odd)
        /\ pp[i] = Z => in_f

check_definition(ff, lay, gr, pp) ==
    /\ Cardinality(DOMAIN ff) = Cardinality(DOMAIN pp)
    /\ \A i \in DOMAIN ff :
        /\ check_layer_f(ff, lay, pp, i)
        /\ check_layer_odd(ff, lay, gr, pp, i)
        /\ check_y_correction(ff, lay, gr, pp, i)
        /\ check_pplane(ff, gr, pp, i)

----------------------------------------------------------------------------
\* The arguments of find

vset == 0..(n - 1)

Graphs(vs) ==
    {gr \in [vs -> SUBSET vs] :
        \A a \in vs : a \notin gr[a] /\ \A b \in gr[a] : a \in gr[b]}

PlaneMaps(vs) == UNION {[D -> PPlane] : D \in SUBSET vs}

yset == matching_nodes(pplane, {Y})
xyset == matching_nodes(pplane, {X, Y})
yzset == matching_nodes(pplane, {Y, Z})

NoVertex == [u |-> {}, res |-> "none", tried |-> <<>>]

Init ==
    /\ n \in 0..MaxN
    /\ g \in Graphs(vset)
    /\ iset \in SUBSET vset
    /\ oset \in SUBSET vset
    /\ pplane \in PlaneMaps(vset \ oset)
    /\ l = 0
    /\ cset = {}
    /\ ocset = vset \ oset
    /\ rowset_upper = vset \ yzset
    /\ rowset_lower = yset
    /\ colset = xyset \ iset
    /\ f = <<>>
    /\ layer = [v \in vset |-> 0]
    /\ todo = ocset
    /\ last = NoVertex
    /\ pc = "sweep"
    /\ result = "running"

\* The calls with matrices of three lower rows and more: WideN vertices on
\* a line (any of its edges present), every non-output vertex measured in
\* plane XY or Y, at most the last vertex an output.
LineGraphs(vs) ==
    {gr \in Graphs(vs) :
        \A a \in vs : \A b \in gr[a] : b = a + 1 \/ a = b + 1}

InitWide ==
    /\ n = WideN
    /\ g \in LineGraphs(vset)
    /\ iset \in SUBSET vset
    /\ oset \in SUBSET {WideN - 1}
    /\ pplane \in [vset \ oset -> {XY, Y}]
    /\ l = 0
    /\ cset = {}
    /\ ocset = vset \ oset
    /\ rowset_upper = vset \ yzset
    /\ rowset_lower = yset
    /\ colset = xyset \ iset
    /\ f = <<>>
    /\ layer = [v \in vset |-> 0]
    /\ todo = ocset
    /\ last = NoVertex
    /\ pc = "sweep"
    /\ result = "running"

----------------------------------------------------------------------------
\* The body of `for &u in &ocset`

\* Which planes try branch K.
BranchPlanes(K) ==
    IF K = BRANCH_XY THEN {XY, X, Y}
    ELSE IF K = BRANCH_YZ THEN {YZ, Y, Z}
    ELSE {ZX, Z, X}

\* The end of a branch block: the solver's verdict is recorded, and on
\* success f(u) is decoded.
BranchVerdict(s, K, u, cols, sol) ==
    IF sol.solved
    THEN [done |-> TRUE, panic |-> FALSE, tried |-> Append(s.tried, K),
          fu |-> decode_solution(K, u, sol.x, OrderedNodes(cols))]
    ELSE [s EXCEPT !.tried = Append(@, K)]

\* A branch block once work is initialised (a write past the row width
\* has panicked).
BranchSolve(s, K, u, cols, work) ==
    IF OutOfBounds(work, Cardinality(cols) + 1)
    THEN [s EXCEPT !.panic = TRUE, !.tried = Append(@, K)]
    ELSE BranchVerdict(s, K, u, cols,
                       solve_in_place(work, Cardinality(cols)))

\* One `if !done && matches!(ppu, ..)` block for branch K.
TryBranch(s, K, u, ppu, gr, rs_upper, rs_lower, cols) ==
    IF s.done \/ s.panic \/ ppu \notin BranchPlanes(K) THEN s
    ELSE BranchSolve(s, K, u, cols,
            init_work(K,
                      zerofill(Cardinality(rs_upper) + Cardinality(rs_lower)),
                      u, gr, rs_upper, rs_lower, cols))

\* Variant: only the XY and YZ blocks, the ZX block missing.
TryBranches_no_zx(u, ppu, gr, rs_upper, rs_lower, cols) ==
    LET s0 == [done |-> FALSE, panic |-> FALSE, tried |-> <<>>, fu |-> {}]
        s1 == TryBranch(s0, BRANCH_XY, u, ppu, gr, rs_upper, rs_lower, cols)
    IN  TryBranch(s1, BRANCH_YZ, u, ppu, gr, rs_upper, rs_lower, cols)

\* Variant: the ZX block placed before the YZ block.
TryBranches_zx_first(u, ppu, gr, rs_upper, rs_lower, cols) ==
    LET s0 == [done |-> FALSE, panic |-> FALSE, tried |-> <<>>, fu |-> {}]
        s1 == TryBranch(s0, BRANCH_XY, u, ppu, gr, rs_upper, rs_lower, cols)
        s2 == TryBranch(s1, BRANCH_ZX, u, ppu, gr, rs_upper, rs_lower, cols)
    IN  TryBranch(s2, BRANCH_YZ, u, ppu, gr, rs_upper, rs_lower, cols)

\* The three blocks in program order: XY, YZ, ZX.
TryBranches(u, ppu, gr, rs_upper, rs_lower, cols) ==
    LET s0 == [done |-> FALSE, panic |-> FALSE, tried |-> <<>>, fu |-> {}]
        s1 == TryBranch(s0, BRANCH_XY, u, ppu, gr, rs_upper, rs_lower, cols)
        s2 == TryBranch(s1, BRANCH_YZ, u, ppu, gr, rs_upper, rs_lower, cols)
    IN  TryBranch(s2, BRANCH_ZX, u, ppu, gr, rs_upper, rs_lower, cols)

\* `continue` when there is nothing to solve.
SkipVertex(nrows_upper, nrows_lower, ncols) ==
    nrows_upper + nrows_lower = 0 \/ ncols = 0

\* What one pass of the body does for u: skip, panic (no plane for u, or a
\* write out of bounds), accept with f(u), or reject; s is the state after
\* the three branch blocks.
BodyResult(u, pp, skip, s) ==
    IF skip THEN [res |-> "skip", tried |-> <<>>, fu |-> {}]
    ELSE IF u \notin DOMAIN pp
    THEN [res |-> "panic", tried |-> <<>>, fu |-> {}]
    ELSE IF s.panic THEN [res |-> "panic", tried |-> s.tried, fu |-> {}]
    ELSE IF s.done THEN [res |-> "accept", tried |-> s.tried, fu |-> s.fu]
    ELSE [res |-> "reject", tried |-> s.tried, fu |-> {}]

\* The body under its three guards, and the frontier sets once the guards
\* are dropped.
GuardedBody(gr, pp, u, g_upper, g_lower, g_col) ==
    [out |-> BodyResult(u, pp,
                SkipVertex(Cardinality(g_upper.target),
                           Cardinality(g_lower.target),
                           Cardinality(g_col.target)),
                TryBranches(u, pp[u], gr, g_upper.target, g_lower.target,
                            g_col.target)),
     rowset_upper |-> ScopedInclude_drop(g_upper),
     rowset_lower |-> ScopedExclude_drop(g_lower),
     colset |-> ScopedExclude_drop(g_col)]

\* One pass of the body for u on the frontier sets ru, rl, cs.
VertexBody(gr, pp, u, ru, rl, cs) ==
    GuardedBody(gr, pp, u, ScopedInclude_new(ru, u),
                ScopedExclude_new(rl, u), ScopedExclude_new(cs, u))

\* f.insert(u, decode_solution(..))
insert_f(ff, u, fu) ==
    [v \in DOMAIN ff \cup {u} |-> IF v = u THEN fu ELSE ff[v]]

\* Variant: layers counted from 1.
set_layer_next(lay, u, L) == [lay EXCEPT ![u] = L + 1]

\* layer[u] = l
set_layer(lay, u, L) == [lay EXCEPT ![u] = L]

\* The effect of one pass b of the body on the state of the call.
VertexStep(u, b) ==
    /\ rowset_upper' = b.rowset_upper
    /\ rowset_lower' = b.rowset_lower
    /\ colset' = b.colset
    /\ last' = [u |-> {u}, res |-> b.out.res, tried |-> b.out.tried]
    /\ IF b.out.res = "panic"
       THEN /\ pc' = "done"
            /\ result' = "panic"
            /\ UNCHANGED <<cset, f, layer, todo>>
       ELSE /\ todo' = todo \ {u}
            /\ UNCHANGED <<pc, result>>
            /\ IF b.out.res = "accept"
               THEN /\ f' = insert_f(f, u, b.out.fu)
                    /\ layer' = set_layer(layer, u, l)
                    /\ cset' = cset \cup {u}
               ELSE UNCHANGED <<cset, f, layer>>

Vertex(u) ==
    /\ pc = "sweep"
    /\ u \in todo
    /\ VertexStep(u, VertexBody(g, pplane, u, rowset_upper, rowset_lower,
                                colset))
    /\ UNCHANGED <<n, g, iset, oset, pplane, l, ocset>>

----------------------------------------------------------------------------
\* End of one iteration of `for l in 0_usize..`

\* Variant: the outputs stay in rowset_upper.
SeedUpper_keep(L, ru, os) == ru

\* Variant: the outputs are never added to colset.
SeedCols_none(L, cs, is, os) == cs

\* Variant: every output is added to colset, inputs included.
SeedCols_inputs(L, cs, is, os) == IF L = 0 THEN cs \cup os ELSE cs

\* The rows and columns after the `if l == 0` block.
SeedUpper(L, ru, os) == IF L = 0 THEN ru \ os ELSE ru
SeedLower(L, rl, os) == IF L = 0 THEN rl \ os ELSE rl
SeedCols(L, cs, is, os) == IF L = 0 THEN cs \cup (os \ is) ELSE cs

\* `else if cset.is_empty() { break }`
LoopBreaks(L, cs_acc) == L # 0 /\ cs_acc = {}

\* The common update, then the next iteration's cset.clear().
NextLayer ==
    /\ ocset' = ocset \ cset
    /\ rowset_upper' = SeedUpper(l, rowset_upper, oset) \ cset
    /\ rowset_lower' = SeedLower(l, rowset_lower, oset) \ cset
    /\ colset' = SeedCols(l, colset, iset, oset) \cup (cset \ iset)
    /\ l' = l + 1
    /\ cset' = {}
    /\ todo' = ocset'
    /\ last' = NoVertex
    /\ UNCHANGED <<n, g, iset, oset, pplane, f, layer, pc, result>>

\* l == 0: the outputs leave the rows and become candidates.
EndLayerSeed ==
    /\ pc = "sweep" /\ todo = {}
    /\ l = 0
    /\ NextLayer

\* l > 0 and nothing accepted: break.
EndLayerBreak ==
    /\ pc = "sweep" /\ todo = {}
    /\ LoopBreaks(l, cset)
    /\ pc' = "post"
    /\ last' = NoVertex
    /\ UNCHANGED <<n, g, iset, oset, pplane, l, cset, ocset, rowset_upper,
                   rowset_lower, colset, f, layer, todo, result>>

\* l > 0 and some vertex accepted.
EndLayerNext ==
    /\ pc = "sweep" /\ todo = {}
    /\ l # 0 /\ ~LoopBreaks(l, cset)
    /\ NextLayer

----------------------------------------------------------------------------
\* After the loop

PostChecks(ff, lay, gr, is, os, pp) ==
    /\ check_domain(ff, DOMAIN gr, is, os)
    /\ check_initial(lay, os)
    /\ check_definition(ff, lay, gr, pp)

\* Variant: the test of ocset inverted.
Outcome_inverted(oc, ff, lay, gr, is, os, pp) ==
    IF oc # {}
    THEN IF PostChecks(ff, lay, gr, is, os, pp) THEN "some" ELSE "panic"
    ELSE "none"

\* What the call yields once the loop is left with oc uncorrected.
Outcome(oc, ff, lay, gr, is, os, pp) ==
    IF oc = {}
    THEN IF PostChecks(ff, lay, gr, is, os, pp) THEN "some" ELSE "panic"
    ELSE "none"

Finish ==
    /\ pc = "post"
    /\ pc' = "done"
    /\ result' = Outcome(ocset, f, layer, g, iset, oset, pplane)
    /\ UNCHANGED <<n, g, iset, oset, pplane, l, cset, ocset, rowset_upper,
                   rowset_lower, colset, f, layer, todo, last>>

----------------------------------------------------------------------------
\* The whole call as a function of its arguments.  Within one sweep the
\* frontier sets are the same for every vertex, so the sweep is the map of
\* VertexBody over ocset.

RECURSIVE find_loop(_, _, _, _, _)

\* The end of one iteration, given the passes body[u] of its sweep and the
\* set acc of the vertices they accepted.
find_layer(gr, is, os, pp, st, body, acc) ==
    IF \E u \in st.ocset : body[u].out.res = "panic"
    THEN [kind |-> "panic", f |-> <<>>, layer |-> <<>>]
    ELSE IF LoopBreaks(st.l, acc)
    THEN [kind |-> Outcome(st.ocset, st.f, st.layer, gr, is, os, pp),
          f |-> st.f, layer |-> st.layer]
    ELSE find_loop(gr, is, os, pp,
            [l |-> st.l + 1,
             ocset |-> st.ocset \ acc,
             rowset_upper |-> SeedUpper(st.l, st.rowset_upper, os) \ acc,
             rowset_lower |-> SeedLower(st.l, st.rowset_lower, os) \ acc,
             colset |-> SeedCols(st.l, st.colset, is, os) \cup (acc \ is),
             f |-> [v \in DOMAIN st.f \cup acc |->
                      IF v \in acc THEN body[v].out.fu ELSE st.f[v]],
             layer |-> [v \in DOMAIN st.layer |->
                      IF v \in acc THEN st.l ELSE st.layer[v]]])

find_sweep(gr, is, os, pp, st, body) ==
    find_layer(gr, is, os, pp, st, body,
               {u \in st.ocset : body[u].out.res = "accept"})

find_loop(gr, is, os, pp, st) ==
    find_sweep(gr, is, os, pp, st,
        [u \in st.ocset |->
            VertexBody(gr, pp, u, st.rowset_upper, st.rowset_lower,
                       st.colset)])

find(gr, is, os, pp) ==
    find_loop(gr, is, os, pp,
        [l |-> 0,
         ocset |-> DOMAIN gr \ os,
         rowset_upper |-> DOMAIN gr \ matching_nodes(pp, {Y, Z}),
         rowset_lower |-> matching_nodes(pp, {Y}),
         colset |-> matching_nodes(pp, {X, Y}) \ is,
         f |-> <<>>,
         layer |-> [v \in DOMAIN gr |-> 0]])

\* g with the edge a - b added.
AddEdge(gr, a, b) ==
    [v \in DOMAIN gr |->
        IF v = a THEN gr[v] \cup {b}
        ELSE IF v = b THEN gr[v] \cup {a}
        ELSE gr[v]]

Next ==
    \/ \E u \in todo : Vertex(u)
    \/ EndLayerSeed
    \/ EndLayerBreak
    \/ EndLayerNext
    \/ Finish

Spec == Init /\ [][Next]_vars

SpecWide == InitWide /\ [][Next]_vars

----------------------------------------------------------------------------
\* Properties

\* The loop has been left with every non-output vertex corrected: the
\* (f, layer) that find is about to check and return.
Produced == pc = "post" /\ ocset = {}

\* The system of branch K for vertex u on the current frontier sets:
\* rows rowset_upper + {u} and rowset_lower - {u}, columns colset - {u}.
RowsUpperOf(u) == rowset_upper \cup {u}
RowsLowerOf(u) == rowset_lower \ {u}
ColsOf(u) == colset \ {u}

SystemOf(K, u) ==
    init_work(K,
              zerofill(Cardinality(RowsUpperOf(u)) + Cardinality(RowsLowerOf(u))),
              u, g, RowsUpperOf(u), RowsLowerOf(u), ColsOf(u))

\* xs (a set of column indices) satisfies every row of the system.
IsSolution(work, ncols, xs) ==
    \A r \in 1..Len(work) :
        (Cardinality(work[r] \cap xs) % 2 = 1) <=> (ncols \in work[r])

\* The system can be built and has some solution over GF(2).
Solvable(K, u) ==
    LET w == SystemOf(K, u)
        nc == Cardinality(ColsOf(u))
    IN  /\ ~OutOfBounds(w, nc + 1)
        /\ \E xs \in SUBSET (0..(nc - 1)) : IsSolution(w, nc, xs)

Eligible(u) ==
    {K \in {BRANCH_XY, BRANCH_YZ, BRANCH_ZX} :
        plane_in(pplane, u, BranchPlanes(K))}

\* The largest layer value.
MaxLayer ==
    IF vset = {} THEN 0
    ELSE CHOOSE m \in {layer[v] : v \in vset} : \A v \in vset : layer[v] <= m

\* C1: with a total plane map on V \ O, the (f, layer) produced when the
\* loop ends with ocset empty passes every condition of check_definition.
C1_DefinitionHolds ==
    (Produced /\ DOMAIN pplane = vset \ oset)
        => check_definition(f, layer, g, pplane)

\* C2: for the (f, layer) produced when ocset becomes empty, dom(f) = V \ O,
\* no f(u) contains an input vertex, and every output has layer 0.
C2_DomainAndInitial ==
    Produced =>
        /\ DOMAIN f = vset \ oset
        /\ \A u \in DOMAIN f : f[u] \cap iset = {}
        /\ \A v \in oset : layer[v] = 0

\* C3 as stated: the vertex just tested at layer l was accepted iff some
\* eligible branch's system on the frontier sets at l is solvable.
C3_AcceptedIffSolvable ==
    \A u \in last.u :
        (last.res = "accept") <=> (\E K \in Eligible(u) : Solvable(K, u))

\* C3 amended: the vertex just tested at layer l was accepted (entered in
\* cset and f with layer l) iff colset - {u} is non-empty and some eligible
\* branch's system on the frontier sets at l can be built and is solvable.
C3_AcceptedIffColumnsAndSolvable ==
    \A u \in last.u :
        /\ (last.res = "accept")
              <=> (ColsOf(u) # {} /\ \E K \in Eligible(u) : Solvable(K, u))
        /\ (last.res = "accept")
              <=> (u \in cset /\ u \in DOMAIN f /\ layer[u] = l)

\* A vertex with candidates is accepted at layer 2.
C3_Witness ==
    \E u \in last.u :
        last.res = "accept" /\ l = 2 /\ ColsOf(u) # {}

\* C4 as stated: every column candidate of a vertex about to be tested at
\* layer l was accepted at a layer below l or is an output seeded after the
\* l = 0 sweep.
C4_CandidatesAcceptedOrOutput ==
    pc = "sweep" =>
        \A u \in todo : \A c \in ColsOf(u) :
            \/ c \in DOMAIN f /\ layer[c] < l
            \/ c \in oset /\ l >= 1

\* C4 amended: every column candidate of a vertex about to be tested at
\* layer l was accepted at a layer below l, or is an output seeded after
\* the l = 0 sweep, or is a vertex measured in plane X or Y.
C4_CandidatesAcceptedOutputOrPauli ==
    pc = "sweep" =>
        \A u \in todo : \A c \in ColsOf(u) :
            \/ c \in DOMAIN f /\ layer[c] < l
            \/ c \in oset /\ l >= 1
            \/ plane_in(pplane, c, {X, Y})

\* After the seeding, a vertex is about to be tested with both a not yet
\* accepted X/Y vertex and an output or accepted vertex among its candidates.
C4_Witness ==
    /\ pc = "sweep" /\ l >= 1
    /\ \E u \in todo : \E c, d \in ColsOf(u) :
          /\ c \notin DOMAIN f /\ c \notin oset
          /\ d \in oset \/ d \in DOMAIN f

\* The arguments of the "pair on a line" scenario, but for the plane map.
PairOnALine ==
    /\ n = 2
    /\ g = [v \in {0, 1} |-> {1 - v}]
    /\ iset = {0}
    /\ oset = {1}

PairResult ==
    /\ result = "some"
    /\ layer = [v \in {0, 1} |-> 1 - v]
    /\ f = [v \in {0} |-> {1}]

\* C5 as stated: on the edge 0 - 1, I = {0}, O = {1} and an empty plane
\* map, find returns layer = [1, 0] and f(0) = {1}.
C5_PairEmptyPlanes ==
    (pc = "done" /\ PairOnALine /\ DOMAIN pplane = {}) => PairResult

\* C5 amended: on the edge 0 - 1, I = {0}, O = {1} and the plane map
\* {0: XY}, find returns layer = [1, 0] and f(0) = {1}.
C5_PairXYPlane ==
    (pc = "done" /\ PairOnALine /\ DOMAIN pplane = {0} /\ pplane[0] = XY)
        => PairResult

C5_Witness ==
    /\ pc = "done" /\ PairOnALine
    /\ DOMAIN pplane = {0} /\ pplane[0] = XY
    /\ result = "some"

\* C6: in a returned result every non-output vertex has its layer in
\* 0..max_L and every level 1..max_L holds at least one vertex.
C6_NoLayerGaps ==
    result = "some" =>
        /\ \A v \in vset \ oset : layer[v] \in 0..MaxLayer
        /\ \A L \in 1..MaxLayer : \E v \in vset : layer[v] = L

\* A returned result with two positive levels.
C6_Witness == result = "some" /\ MaxLayer >= 2

\* C7: for two distinct outputs a, b, find on g and find on g with the
\* edge a - b added end the same way (a result, absence, or abort).
C7_OutputEdgeIrrelevant ==
    pc = "done" =>
        \A a, b \in oset :
            a # b => find(AddEdge(g, a, b), iset, oset, pplane).kind = result

\* A flow is found whose correction sets use an output, with two outputs
\* not joined by an edge.
C7_Witness ==
    /\ pc = "done" /\ result = "some"
    /\ \E a, b \in oset : a # b /\ b \notin g[a]
    /\ \E u \in DOMAIN f : f[u] \cap oset # {}

\* C8: when every vertex is an output and the plane map is empty, find
\* returns an empty f and layer 0 everywhere, whatever the edges and I.
C8_AllOutputs ==
    (pc = "done" /\ oset = vset /\ DOMAIN pplane = {}) =>
        /\ result = "some"
        /\ DOMAIN f = {}
        /\ \A v \in vset : layer[v] = 0

\* Three output vertices, some edges, some inputs.
C8_Witness ==
    /\ pc = "done" /\ oset = vset /\ DOMAIN pplane = {}
    /\ n = 3 /\ iset # {} /\ g[0] # {}
    /\ result = "some"

\* C9: the loop runs at most |V \ O| + 2 iterations (l never exceeds
\* |V \ O| + 1), and once the loop is left the call yields a result iff
\* ocset is empty and absence otherwise.
C9_TerminatesWithVerdict ==
    /\ l <= Cardinality(vset \ oset) + 1
    /\ (pc = "done" /\ last.res # "panic") =>
          /\ (result = "some") <=> (ocset = {})
          /\ (result = "none") <=> (ocset # {})

\* The order in which the branches of a plane are to be attempted.
BranchOrder(p) ==
    IF p = XY THEN <<BRANCH_XY>>
    ELSE IF p = YZ THEN <<BRANCH_YZ>>
    ELSE IF p = ZX THEN <<BRANCH_ZX>>
    ELSE IF p = X THEN <<BRANCH_XY, BRANCH_ZX>>
    ELSE IF p = Y THEN <<BRANCH_XY, BRANCH_YZ>>
    ELSE <<BRANCH_YZ, BRANCH_ZX>>

\* C10: the branches attempted for the vertex just tested are an initial
\* segment of its plane's order (XY before YZ before ZX); every attempted
\* branch but the last has no solution; an accepted vertex stops at its
\* first solvable branch, f(u) minus u solves that branch's system and f(u)
\* contains u iff that branch is not XY; a rejected vertex tried them all.
C10_BranchOrder ==
    \A u \in last.u :
        last.res \in {"accept", "reject"} =>
            LET t == last.tried
                o == BranchOrder(pplane[u])
                k == Len(t)
                cs == OrderedNodes(ColsOf(u))
            IN  /\ k >= 1 /\ k <= Len(o) /\ t = SubSeq(o, 1, k)
                /\ \A i \in 1..(k - 1) : ~Solvable(t[i], u)
                /\ last.res = "reject" => (k = Len(o) /\ ~Solvable(t[k], u))
                /\ last.res = "accept" =>
                      /\ Solvable(t[k], u)
                      /\ f[u] \ {u} \subseteq ColsOf(u)
                      /\ IsSolution(SystemOf(t[k], u), Len(cs),
                                    {IndexOf(cs, v) : v \in f[u] \ {u}})
                      /\ (u \in f[u]) <=> (t[k] # BRANCH_XY)

\* A vertex accepted by its second branch, after the first one failed.
C10_Witness ==
    \E u \in last.u :
        last.res = "accept" /\ Len(last.tried) = 2 /\ l >= 1

\* The three guards taken for u on the current frontier sets.
GuardUpper(u) == ScopedInclude_new(rowset_upper, u)
GuardLower(u) == ScopedExclude_new(rowset_lower, u)
GuardCols(u) == ScopedExclude_new(colset, u)

\* C11: a step that processes a vertex of the sweep (skipped, accepted,
\* rejected) leaves rowset_upper, rowset_lower and colset as they were, and
\* each guard's drop changes its set back exactly when taking the guard
\* changed the set.
C11_FrontierRestored ==
    [][(pc = "sweep" /\ todo # {}) =>
          /\ rowset_upper' = rowset_upper
          /\ rowset_lower' = rowset_lower
          /\ colset' = colset
          /\ \A u \in last'.u :
                /\ (ScopedInclude_drop(GuardUpper(u)) # GuardUpper(u).target)
                      <=> (GuardUpper(u).target # rowset_upper)
                /\ (ScopedExclude_drop(GuardLower(u)) # GuardLower(u).target)
                      <=> (GuardLower(u).target # rowset_lower)
                /\ (ScopedExclude_drop(GuardCols(u)) # GuardCols(u).target)
                      <=> (GuardCols(u).target # colset)]_vars

\* A vertex of plane Y, absent from rowset_upper and present in
\* rowset_lower and colset, has just been rejected: all three guards
\* changed their set and the sets are back.
C11_Witness ==
    \E u \in last.u :
        /\ last.res = "reject"
        /\ u \notin rowset_upper /\ u \in rowset_lower /\ u \in colset

\* C12: in every state of the call (at the start, inside the scope of every
\* vertex about to be processed, after the l = 0 seeding and after every
\* end-of-layer update) colset holds no input vertex.
C12_NoInputColumn ==
    /\ colset \cap iset = {}
    /\ pc = "sweep" => \A u \in todo : GuardCols(u).target \cap iset = {}

\* Past the second end-of-layer update, with an input that is also an
\* output, an accepted input of plane X or Y, and candidates left.
C12_Witness ==
    /\ pc = "sweep" /\ l >= 2
    /\ iset \cap oset # {}
    /\ \E j \in iset \cap DOMAIN f : plane_in(pplane, j, {X, Y})
    /\ colset # {}

\* The left side of the system for u on the current frontier sets: what
\* init_work_upper_co and init_work_lower_co write, before any right-hand
\* side.
CoefficientsOf(u) ==
    init_work_upper_co(zerofill(Cardinality(RowsUpperOf(u))), g,
                       RowsUpperOf(u), ColsOf(u))
        \o init_work_lower_co(zerofill(Cardinality(RowsLowerOf(u))), g,
                              RowsLowerOf(u), ColsOf(u))

\* Every matrix built for the vertex just tested has all its bits below
\* ncols + 1, the row width.
WritesInsideRow ==
    \A u \in last.u : \A i \in 1..Len(last.tried) :
        ~OutOfBounds(SystemOf(last.tried[i], u), Cardinality(ColsOf(u)) + 1)

\* Every bit written by the coefficient initialisation for the vertex just
\* tested, the lower block's diagonal included, is below ncols.
CoefficientsLeftOfRhs ==
    \A u \in last.u :
        last.tried # <<>> =>
            ~OutOfBounds(CoefficientsOf(u), Cardinality(ColsOf(u)))

\* C13: in every matrix build (row width ncols + 1), every bit index that
\* init_work sets or toggles is below ncols + 1, and every coefficient
\* write, the lower block's diagonal included, is below ncols, so that
\* column ncols is written by the right-hand-side initialisation only.
C13_WritesInBounds == WritesInsideRow /\ CoefficientsLeftOfRhs

====
